---- MODULE Spec2Model ----
(***************************************************************************)
(* MilitaryGeo: the MilitaryOSMLayer React component.                      *)
(*                                                                         *)
(*  - eager-fetch widget   (src/src/MilitaryLayer.tsx): all categories are *)
(*    fetched at mount, Promise.all joins them, a category change only     *)
(*    reads cacheRef.  Specification: Spec.                                *)
(*  - fetch-per-view widget (src/unnamed/part_001): every category change  *)
(*    calls fetchData.  Specification: SpecPerView.                        *)
(*                                                                         *)
(* One action is one task of the event loop: the handler, the renders it   *)
(* causes and the effects of those renders.                                *)
(***************************************************************************)
EXTENDS Integers, FiniteSets, Sequences, TLC

\* ---- bounds ----
\* number of entries of MILITARY_TYPES the model keeps (the list has 11)
NumTypes == 3
\* fetch-per-view widget: cap on simultaneously pending fetchData calls
MaxInFlight == 3

\* ---- registry ----
MILITARY_TYPES ==
  << "barracks", "naval_base", "airfield", "training_area", "yes", "range",
     "primary", "office", "danger_area", "checkpoint", "shelter" >>

Registry == { MILITARY_TYPES[i] : i \in 1..NumTypes }

\* ---- values of the `data` state and of cache entries ----
Null      == [kind |-> "null",      src |-> "-", feats |-> {}]
Undefined == [kind |-> "undefined", src |-> "-", feats |-> {}]
Coll(t, f) == [kind |-> "fc", src |-> t, feats |-> f]

\* JavaScript truthiness of a GeoJSONData | null | undefined value
Truthy(d) == d.kind = "fc"

\* feature collections a fetch may return: geometry as a set of <<lat, lng>>
Contents == { {}, {<<0, 0>>, <<1, 2>>}, {<<3, 1>>} }

MinOf(S) == CHOOSE x \in S : \A y \in S : x <= y
MaxOf(S) == CHOOSE x \in S : \A y \in S : x >= y

\* L.GeoJSON.getBounds(): the box around all geometry; not valid when empty
InvalidBounds == [valid |-> FALSE, s |-> 0, w |-> 0, n |-> 0, e |-> 0]
Bounds(f) ==
  IF f = {} THEN InvalidBounds
  ELSE [valid |-> TRUE,
        s |-> MinOf({p[1] : p \in f}), w |-> MinOf({p[2] : p \in f}),
        n |-> MaxOf({p[1] : p \in f}), e |-> MaxOf({p[2] : p \in f})]

NoFit == [issued |-> FALSE, bounds |-> InvalidBounds]
NoLayer == [present |-> FALSE, key |-> "-", data |-> Null]

VARIABLES
  phase,         \* "init" (constructed), "mounted", "unmounted"
  militaryType,  \* useState<MilitaryType>("barracks")
  data,          \* useState<GeoJSONData | null>(null)
  loading,       \* useState<boolean>(false)
  cacheRef,      \* cacheRef.current: category -> collection, Undefined if absent
  fetchState,    \* per category: "idle", "pending", "ok", "failed"
  fetched,       \* per category: the collection fetchLayer returned
  fetchCount,    \* per category: number of fetchLayer calls so far
  cancelled,     \* the `cancelled` flag of the loadAll effect
  capturedType,  \* militaryType as captured by the closure of the mount effect
  layer,         \* the Leaflet layer behind layerRef.current
  last,          \* what the last task did (op, data before it, fit request)
  inflight       \* fetch-per-view widget: pending fetchData calls per category

vars == << phase, militaryType, data, loading, cacheRef, fetchState, fetched,
           fetchCount, cancelled, capturedType, layer, last, inflight >>

Last(op, t, fit) == [op |-> op, type |-> t, before |-> data, fit |-> fit]

Init ==
  /\ phase = "init"
  /\ militaryType = "barracks"
  /\ data = Null
  /\ loading = FALSE
  /\ cacheRef = [t \in Registry |-> Undefined]
  /\ fetchState = [t \in Registry |-> "idle"]
  /\ fetched = [t \in Registry |-> Undefined]
  /\ fetchCount = [t \in Registry |-> 0]
  /\ cancelled = FALSE
  /\ capturedType = "barracks"
  /\ layer = NoLayer
  /\ last = [op |-> "none", type |-> "-", before |-> Null, fit |-> NoFit]
  /\ inflight = [t \in Registry |-> 0]

\* ---- rendering and the fit-bounds effect ----

\* {data && <GeoJSON key={militaryType} data={data} ref={layerRef} />}:
\* react-leaflet builds the Leaflet layer from `data` when the element is
\* created and never reads `data` again; a new key creates a new element.
RenderLayer(m, d, l) ==
  IF ~Truthy(d) THEN NoLayer
  ELSE IF l.present /\ l.key = m THEN l
  ELSE [present |-> TRUE, key |-> m, data |-> d]

\* useEffect(() => {...}, [data, map]) once it runs
FitBoundsEffect(d, l) ==
  IF ~Truthy(d) \/ ~l.present THEN NoFit
  ELSE LET bounds == Bounds(l.data.feats)
       IN IF bounds.valid THEN [issued |-> TRUE, bounds |-> bounds] ELSE NoFit

\* the effect runs only when the `data` dependency changed
FitAfter(dOld, dNew, l) == IF dNew # dOld THEN FitBoundsEffect(dNew, l) ELSE NoFit

\* ---- eager-fetch widget ----

CategoryEffect_KeepPrevious(cached, prev) == prev

CategoryEffect_NullOnMiss(cached, prev) == IF Truthy(cached) THEN cached ELSE Null

\* const cached = cacheRef.current[militaryType]; if (cacheRef) setData(cached);
\* cacheRef is the ref object, always truthy: `cached` is stored as it is
CategoryEffect(cached, prev) == cached

CategoryChangeEffect_Refetch(t) ==
  LET l1 == RenderLayer(t, data, layer)
      d2 == CategoryEffect(cacheRef[t], data)
      l2 == RenderLayer(t, d2, l1)
  IN /\ data' = d2
     /\ layer' = l2
     /\ last' = Last("select", t, FitAfter(data, d2, l2))
     /\ fetchCount' = [fetchCount EXCEPT ![t] = IF @ < 3 THEN @ + 1 ELSE @]
     /\ fetchState' = [fetchState EXCEPT ![t] = "pending"]
     /\ UNCHANGED << loading, cacheRef, fetched >>

\* the render with the new militaryType, then useEffect(..., [militaryType]),
\* then the render with the new data and useEffect(..., [data, map])
CategoryChangeEffect(t) ==
  LET l1 == RenderLayer(t, data, layer)
      d2 == CategoryEffect(cacheRef[t], data)
      l2 == RenderLayer(t, d2, l1)
  IN /\ data' = d2
     /\ layer' = l2
     /\ last' = Last("select", t, FitAfter(data, d2, l2))
     /\ UNCHANGED << loading, cacheRef, fetchState, fetched, fetchCount >>

\* first render and the three effects in source order
Mount ==
  /\ phase = "init"
  /\ phase' = "mounted"
  /\ loading' = TRUE
  /\ fetchState' = [t \in Registry |-> "pending"]
  /\ fetchCount' = [t \in Registry |-> fetchCount[t] + 1]
  /\ capturedType' = militaryType
  /\ data' = CategoryEffect(cacheRef[militaryType], data)
  /\ layer' = RenderLayer(militaryType, data', layer)
  /\ last' = Last("mount", militaryType, FitAfter(data, data', layer'))
  /\ UNCHANGED << militaryType, cacheRef, fetched, cancelled, inflight >>

\* onClick={() => setMilitaryType(type)}; a click on the selected category
\* sets the same state and React renders nothing
Select(t) ==
  /\ phase = "mounted"
  /\ t # militaryType
  /\ militaryType' = t
  /\ CategoryChangeEffect(t)
  /\ UNCHANGED << phase, cancelled, capturedType, inflight >>

PromiseAllFulfilled_AllSettled(fs) == \A t \in Registry : fs[t] \in {"ok", "failed"}

\* await Promise.all(promises) returns only when every promise is fulfilled
PromiseAllFulfilled(fs) == \A t \in Registry : fs[t] = "ok"

ContinuationWrites_IgnoreCancelled(fs, canc) == PromiseAllFulfilled(fs)

\* the body of `if (!cancelled)` runs
ContinuationWrites(fs, canc) == PromiseAllFulfilled(fs) /\ ~canc

CacheAfterSettle_SkipEmpty(cache, got, fs, canc) ==
  IF PromiseAllFulfilled(fs) /\ ~canc
  THEN [t \in Registry |-> IF got[t].feats # {} THEN got[t] ELSE Undefined]
  ELSE cache

CacheAfterSettle_Incremental(cache, got, fs, canc) ==
  IF ~canc THEN got ELSE cache

\* results.forEach(({ type, geo }) => { cacheRef.current[type] = geo; })
CacheAfterSettle(cache, got, fs, canc) ==
  IF ContinuationWrites(fs, canc) THEN got ELSE cache

\* the rest of loadAll after one fetchLayer promise settled
LoadAllContinuation(op, t, fs, got) ==
  /\ cacheRef' = CacheAfterSettle(cacheRef, got, fs, cancelled)
  /\ IF ContinuationWrites(fs, cancelled)
     THEN /\ loading' = FALSE
          /\ data' = IF Truthy(cacheRef'[capturedType])
                     THEN cacheRef'[capturedType] ELSE Null
          /\ layer' = RenderLayer(militaryType, data', layer)
          /\ last' = Last(op, t, FitAfter(data, data', layer'))
     ELSE /\ UNCHANGED << loading, data, layer >>
          /\ last' = Last(op, t, NoFit)

\* fetchLayer(t) resolves with the collection osmtogeojson built
FetchResolve(t, f) ==
  /\ fetchState[t] = "pending"
  /\ fetchState' = [fetchState EXCEPT ![t] = "ok"]
  /\ fetched' = [fetched EXCEPT ![t] = Coll(t, f)]
  /\ LoadAllContinuation("resolve", t, fetchState', fetched')
  /\ UNCHANGED << phase, militaryType, fetchCount, cancelled, capturedType, inflight >>

\* axios.get rejects: Promise.all rejects, loadAll throws, nobody catches it
FetchFail(t) ==
  /\ fetchState[t] = "pending"
  /\ fetchState' = [fetchState EXCEPT ![t] = "failed"]
  /\ fetched' = fetched
  /\ LoadAllContinuation("fail", t, fetchState', fetched')
  /\ UNCHANGED << phase, militaryType, fetchCount, cancelled, capturedType, inflight >>

\* the cleanup of the mount effect: cancelled = true; the layer goes with the tree
Unmount ==
  /\ phase = "mounted"
  /\ phase' = "unmounted"
  /\ cancelled' = TRUE
  /\ layer' = NoLayer
  /\ last' = Last("unmount", militaryType, NoFit)
  /\ UNCHANGED << militaryType, data, loading, cacheRef, fetchState, fetched,
                  fetchCount, capturedType, inflight >>

Next ==
  \/ Mount
  \/ \E t \in Registry : Select(t)
  \/ \E t \in Registry, f \in Contents : FetchResolve(t, f)
  \/ \E t \in Registry : FetchFail(t)
  \/ Unmount

Spec == Init /\ [][Next]_vars

\* ---- fetch-per-view widget ----

InFlightTotal(fl) ==
  LET Sum[i \in 0..NumTypes] ==
        IF i = 0 THEN 0 ELSE Sum[i - 1] + fl[MILITARY_TYPES[i]]
  IN Sum[NumTypes]

\* fetchData(type) up to its await: setLoading(true); setData(null); axios.get
FetchDataStart(t) ==
  /\ loading' = TRUE
  /\ data' = Null
  /\ inflight' = [inflight EXCEPT ![t] = @ + 1]

PVFrozen == UNCHANGED << cacheRef, fetchState, fetched, fetchCount, cancelled,
                         capturedType, layer, last >>

\* first render, then useEffect(() => { fetchData(militaryType) }, [militaryType])
PVMount ==
  /\ phase = "init"
  /\ phase' = "mounted"
  /\ FetchDataStart(militaryType)
  /\ UNCHANGED militaryType
  /\ PVFrozen

\* onClick={() => setMilitaryType(type)} and the effect it triggers
PVSelect(t) ==
  /\ phase = "mounted"
  /\ t # militaryType
  /\ InFlightTotal(inflight) < MaxInFlight
  /\ militaryType' = t
  /\ FetchDataStart(t)
  /\ UNCHANGED phase
  /\ PVFrozen

\* try: setData(geojson); finally: setLoading(false)
PVFetchResolve(t, f) ==
  /\ inflight[t] > 0
  /\ inflight' = [inflight EXCEPT ![t] = @ - 1]
  /\ data' = Coll(t, f)
  /\ loading' = FALSE
  /\ UNCHANGED << phase, militaryType >>
  /\ PVFrozen

\* catch: console.error; finally: setLoading(false)
PVFetchFail(t) ==
  /\ inflight[t] > 0
  /\ inflight' = [inflight EXCEPT ![t] = @ - 1]
  /\ loading' = FALSE
  /\ UNCHANGED << phase, militaryType, data >>
  /\ PVFrozen

NextPerView ==
  \/ PVMount
  \/ \E t \in Registry : PVSelect(t)
  \/ \E t \in Registry, f \in Contents : PVFetchResolve(t, f)
  \/ \E t \in Registry : PVFetchFail(t)

SpecPerView == Init /\ [][NextPerView]_vars

\* ---- properties ----

CacheEmpty == \A t \in Registry : cacheRef[t] = Undefined
CacheFull == \A t \in Registry : Truthy(cacheRef[t])
AnyFailed == \E t \in Registry : fetchState[t] = "failed"

\* C1: after a category change to a category whose cache entry is populated,
\* the displayed data is exactly that category's cached collection.
SelectHitShowsCached ==
  (last.op = "select" /\ Truthy(cacheRef[last.type]))
    => (data = cacheRef[last.type] /\ militaryType = last.type)

SelectHitWitness ==
  /\ last.op = "select"
  /\ Truthy(cacheRef[militaryType])
  /\ data = cacheRef[militaryType]
  /\ data # last.before

\* C2: after a category change to a category whose cache entry is absent,
\* the displayed data is what it was before the change.
SelectMissKeepsData ==
  (last.op = "select" /\ ~Truthy(cacheRef[last.type])) => data = last.before

SelectMissWitness ==
  /\ last.op = "select"
  /\ ~Truthy(cacheRef[militaryType])
  /\ \E t \in Registry : fetchState[t] = "pending"
  /\ data = last.before

\* C3: every category is fetched exactly once, at mount, and a category
\* change starts no fetch and writes nothing to the cache.
FetchedOnceAtMount ==
  /\ [](\A t \in Registry : fetchCount[t] = IF phase = "init" THEN 0 ELSE 1)
  /\ [][last'.op = "select" => UNCHANGED << fetchCount, fetchState, cacheRef >>]_vars

FetchedOnceWitness ==
  /\ last.op = "select"
  /\ PromiseAllFulfilled(fetchState)
  /\ \A t \in Registry : fetchCount[t] = 1

\* C4: the cache is either empty or holds, for every registry category, the
\* collection its own fetch returned; it is never partly populated.
CacheAllOrNothing ==
  \/ CacheEmpty
  \/ /\ PromiseAllFulfilled(fetchState)
     /\ \A t \in Registry : Truthy(cacheRef[t]) /\ cacheRef[t] = fetched[t]

CacheFilledWitness ==
  /\ last.op = "resolve"
  /\ CacheFull
  /\ \E t \in Registry : cacheRef[t].feats # {}

\* C5: once mounted, loading is false only when every fetch has succeeded;
\* once any fetch has failed, loading stays set, the cache stays empty and
\* no collection is displayed.
LoadingClearedOnlyOnFullSuccess ==
  /\ (phase # "init" /\ ~loading) => PromiseAllFulfilled(fetchState)
  /\ AnyFailed => (loading /\ CacheEmpty /\ ~Truthy(data))

FailedBatchWitness ==
  /\ AnyFailed
  /\ last.op = "resolve"
  /\ \A t \in Registry : fetchState[t] # "pending"
  /\ loading

\* C6: after the cleanup has set `cancelled`, no step changes the cache, the
\* loading flag or the displayed data, and a batch that had not resolved at
\* unmount leaves the cache empty; the fetches still settle.
NoUpdateAfterUnmount ==
  /\ []((cancelled /\ loading) => CacheEmpty)
  /\ [][cancelled => UNCHANGED << cacheRef, loading, data >>]_vars

ResolvedAfterUnmountWitness ==
  /\ cancelled
  /\ last.op = "resolve"
  /\ PromiseAllFulfilled(fetchState)
  /\ CacheEmpty
  /\ loading

\* C7: when the displayed collection changes to one with a valid bounding box,
\* a fit request is issued with the bounds of the newly displayed collection.
FitMatchesDisplayed ==
  (data # last.before /\ Truthy(data) /\ Bounds(data.feats).valid)
    => (last.fit.issued /\ last.fit.bounds = Bounds(data.feats))

\* C8: no fit request is issued by a step that leaves the displayed
\* collection absent or empty.
NoFitWhenEmpty ==
  (~Truthy(data) \/ ~Bounds(data.feats).valid) => ~last.fit.issued

\* C9: once the batch has settled successfully while mounted, the displayed
\* data is the cache entry of the selected category.
DisplayedMatchesSelected ==
  (phase = "mounted" /\ PromiseAllFulfilled(fetchState) /\ CacheFull)
    => data = cacheRef[militaryType]

\* C10 (fetch-per-view): with no fetch in flight the displayed data is null or
\* the result fetched for the selected category, and loading is set whenever
\* a fetch is in flight.
PerViewConsistent ==
  /\ InFlightTotal(inflight) = 0 => (data = Null \/ data.src = militaryType)
  /\ InFlightTotal(inflight) > 0 => loading
====
